---- MODULE Spec2Model ----
(***************************************************************************)
(* Model of the CDK program of ecs-native-blue-green: the construction of  *)
(* the load balancer bindings (AlbConstruct) and of the ECS task           *)
(* definition and service (EcsConstruct), one action per constructor step. *)
(* The state is the construct tree built so far; the inputs are the        *)
(* optional EcsConstructProps.                                             *)
(***************************************************************************)
EXTENDS Integers, Sequences, FiniteSets, TLC

VARIABLES
    props,            \* EcsConstructProps: which optional props are given
    pc,               \* next step of the stack / EcsConstruct constructor
    targetGroups,     \* ApplicationTargetGroup constructs created
    listeners,        \* ALB listeners: [id, port, defaultTargetGroups]
    rules,            \* ApplicationListenerRule: [id, listener, priority, pathPatterns, forward]
    volumes,          \* task definition volumes
    containers,       \* task definition containers
    dependsOn,        \* container dependencies: [container, on, condition]
    mountPoints,      \* [container, sourceVolume, containerPath, readOnly]
    healthChecks,     \* container health checks
    appEnvironment,   \* environment of the app container: set of <<key, value>>
    appSecrets,       \* secrets of the app container: set of <<key, field>>
    taskRoleGrants,   \* permissions granted to the task / execution role
    service,          \* set with the FargateService record, empty before createService
    ingress,          \* security group rules: [to, from, port]
    loadBalancers,    \* service load balancer registrations
    \* -- the app container's process (index.ts, lib/db.ts, router.ts) --
    env,              \* process.env: which of DB_HOST, VALKEY_HOST are set
    maxRetries,       \* initializeDatabase's maxRetries argument
    apc,              \* position of startServer / initializeDatabase
    attempt,          \* the loop variable of initializeDatabase
    attempts,         \* createTables calls made so far
    sleeps,           \* sleep(retryIntervalMs) calls made so far
    outcome,          \* how the last createTables call settled: "none", "ok", "failed"
    initResult,       \* how initializeDatabase ended: "running", "returned", "thrown"
    tables,           \* tables and indexes created in the database
    hpc,              \* position of the /health handler
    health,           \* the handler's health object
    response          \* the response the handler sent

\* The variables of the app container's process.
appVars == <<env, maxRetries, apc, attempt, attempts, sleeps, outcome,
             initResult, tables, hpc, health, response>>

\* The variables of the CDK construction.
stackVars == <<props, pc, targetGroups, listeners, rules, volumes, containers,
               dependsOn, mountPoints, healthChecks, appEnvironment, appSecrets,
               taskRoleGrants, service, ingress, loadBalancers>>

vars == <<props, pc, targetGroups, listeners, rules, volumes, containers,
          dependsOn, mountPoints, healthChecks, appEnvironment, appSecrets,
          taskRoleGrants, service, ingress, loadBalancers,
          env, maxRetries, apc, attempt, attempts, sleeps, outcome,
          initResult, tables, hpc, health, response>>

\* ---------------------------------------------------------------------
\* Program constants
\* ---------------------------------------------------------------------
ProductionPort == 80
TestPort == 10080
RulePriority == 1
HealthCheckInterval == 10
HealthCheckTimeout == 3
HealthCheckRetries == 3
HealthCheckStartPeriod == 5
DesiredCount == 2
MinHealthyPercent == 100
MaxHealthyPercent == 200
BakeTimeSeconds == 60
HealthCheckGracePeriod == 10

\* EcsConstructProps: every optional prop is either given or undefined.
PropsSpace ==
    [firelens : BOOLEAN,
     enableFluentBitMetrics : BOOLEAN,
     enableApplicationSignals : BOOLEAN,
     aurora : BOOLEAN,
     valkey : BOOLEAN]

\* ---------------------------------------------------------------------
\* AlbConstruct
\* ---------------------------------------------------------------------
\* alb.addListener("Listener", {port: 80, defaultTargetGroups: [tg1]})
AlbListener ==
    [id |-> "Listener", port |-> ProductionPort, defaultTargetGroups |-> <<"Tg1">>]

\* new ApplicationListenerRule(this, "ListenerRule", {... forward([tg1])})
AlbListenerRule ==
    [id |-> "ListenerRule", listener |-> "Listener", priority |-> RulePriority,
     pathPatterns |-> <<"*">>, forward |-> <<"Tg1">>]

\* alb.addListener("TestListener", {port: 10080, defaultTargetGroups: [tg2]})
AlbTestListener ==
    [id |-> "TestListener", port |-> TestPort, defaultTargetGroups |-> <<"Tg2">>]

\* The test rule as a copy of the production rule would have it: forward([tg1]).
AlbTestListenerRule_ForwardsTg1 ==
    [id |-> "TestListenerRule", listener |-> "TestListener", priority |-> RulePriority,
     pathPatterns |-> <<"*">>, forward |-> <<"Tg1">>]

\* new ApplicationListenerRule(this, "TestListenerRule", {... forward([tg2])})
AlbTestListenerRule ==
    [id |-> "TestListenerRule", listener |-> "TestListener", priority |-> RulePriority,
     pathPatterns |-> <<"*">>, forward |-> <<"Tg2">>]

\* The AlbConstruct constructor: two target groups, the production listener
\* and rule, the test listener and rule.
AlbConstruct ==
    /\ pc = "AlbConstruct"
    /\ targetGroups' = {"Tg1", "Tg2"}
    /\ listeners' = {AlbListener, AlbTestListener}
    /\ rules' = {AlbListenerRule, AlbTestListenerRule}
    /\ pc' = "createCluster"
    /\ UNCHANGED appVars
    /\ UNCHANGED <<props, volumes, containers, dependsOn, mountPoints, healthChecks,
                   appEnvironment, appSecrets, taskRoleGrants, service, ingress,
                   loadBalancers>>

\* ---------------------------------------------------------------------
\* EcsConstruct
\* ---------------------------------------------------------------------
\* createCluster: the cluster with the ECS Exec log bucket; no state the
\* task definition or the bindings depend on.
createCluster ==
    /\ pc = "createCluster"
    /\ pc' = "createTaskDefinition"
    /\ UNCHANGED appVars
    /\ UNCHANGED <<props, targetGroups, listeners, rules, volumes, containers,
                   dependsOn, mountPoints, healthChecks, appEnvironment, appSecrets,
                   taskRoleGrants, service, ingress, loadBalancers>>

\* createTaskDefinition: the shared volume exists only with Application Signals.
createTaskDefinition ==
    /\ pc = "createTaskDefinition"
    /\ volumes' = IF props.enableApplicationSignals
                  THEN {"opentelemetry-auto-instrumentation"}
                  ELSE {}
    /\ pc' = "addAdotAutoInstrumentationInitContainer"
    /\ UNCHANGED appVars
    /\ UNCHANGED <<props, targetGroups, listeners, rules, containers, dependsOn,
                   mountPoints, healthChecks, appEnvironment, appSecrets,
                   taskRoleGrants, service, ingress, loadBalancers>>

\* The logging driver of web and app: firelens when props.firelens is given.
AppLogDriver(p) == IF p.firelens THEN "firelens" ELSE "awslogs"

InitContainer ==
    [name |-> "init", essential |-> FALSE, logDriver |-> "awslogs"]

\* addAdotAutoInstrumentationInitContainer: returns at once without
\* Application Signals, else adds the init container and its mount point.
addAdotAutoInstrumentationInitContainer ==
    /\ pc = "addAdotAutoInstrumentationInitContainer"
    /\ IF ~props.enableApplicationSignals
       THEN UNCHANGED <<containers, mountPoints>>
       ELSE /\ containers' = containers \cup {InitContainer}
            /\ mountPoints' = mountPoints \cup
                 {[container |-> "init",
                   sourceVolume |-> "opentelemetry-auto-instrumentation",
                   containerPath |-> "/otel-auto-instrumentation",
                   readOnly |-> FALSE]}
    /\ pc' = "addWebContainer"
    /\ UNCHANGED appVars
    /\ UNCHANGED <<props, targetGroups, listeners, rules, volumes, dependsOn,
                   healthChecks, appEnvironment, appSecrets, taskRoleGrants,
                   service, ingress, loadBalancers>>

WebContainer(p) ==
    [name |-> "web", essential |-> TRUE, logDriver |-> AppLogDriver(p)]

addWebContainer ==
    /\ pc = "addWebContainer"
    /\ containers' = containers \cup {WebContainer(props)}
    /\ pc' = "addAppContainer"
    /\ UNCHANGED appVars
    /\ UNCHANGED <<props, targetGroups, listeners, rules, volumes, dependsOn,
                   mountPoints, healthChecks, appEnvironment, appSecrets,
                   taskRoleGrants, service, ingress, loadBalancers>>

\* buildAppEnvironment: the cache settings when valkey is given, the OTEL
\* settings when Application Signals is enabled.
ValkeyEnvironment ==
    {<<"VALKEY_HOST", "valkey.endpoint">>,
     <<"VALKEY_PORT", "valkey.port">>,
     <<"VALKEY_TLS", "true">>}

OtelResourceAttributes(p) ==
    IF p.firelens
    THEN "service.name,deployment.environment,aws.log.group.names"
    ELSE "service.name,deployment.environment"

OtelEnvironment(p) ==
    {<<"NODE_OPTIONS", "--require /otel-auto-instrumentation/autoinstrumentation.js">>,
     <<"OTEL_RESOURCE_ATTRIBUTES", OtelResourceAttributes(p)>>,
     <<"OTEL_EXPORTER_OTLP_PROTOCOL", "http/protobuf">>,
     <<"OTEL_EXPORTER_OTLP_ENDPOINT", "http://localhost:4318">>,
     <<"OTEL_TRACES_EXPORTER", "otlp">>,
     <<"OTEL_METRICS_EXPORTER", "none">>,
     <<"OTEL_LOGS_EXPORTER", "none">>,
     <<"OTEL_TRACES_SAMPLER", "xray">>,
     <<"OTEL_TRACES_SAMPLER_ARG", "endpoint=http://localhost:2000,polling_interval=300">>,
     <<"OTEL_PROPAGATORS", "tracecontext,baggage,xray">>,
     <<"OTEL_AWS_APPLICATION_SIGNALS_ENABLED", "false">>}

\* buildAppEnvironment without the enableApplicationSignals test: the OTEL
\* settings are injected for every flag combination.
buildAppEnvironment_AlwaysOtel(p) ==
    (IF p.valkey THEN ValkeyEnvironment ELSE {}) \cup OtelEnvironment(p)

buildAppEnvironment(p) ==
    (IF p.valkey THEN ValkeyEnvironment ELSE {})
    \cup (IF p.enableApplicationSignals THEN OtelEnvironment(p) ELSE {})

\* buildAppSecrets: the five database settings when aurora is given.
buildAppSecrets(p) ==
    IF p.aurora
    THEN {<<"DB_HOST", "host">>, <<"DB_PORT", "port">>, <<"DB_USERNAME", "username">>,
          <<"DB_PASSWORD", "password">>, <<"DB_NAME", "dbname">>}
    ELSE {}

AppContainer(p) ==
    [name |-> "app", essential |-> TRUE, logDriver |-> AppLogDriver(p)]

AppHealthCheck ==
    [container |-> "app",
     interval |-> HealthCheckInterval,
     timeout |-> HealthCheckTimeout,
     retries |-> HealthCheckRetries,
     startPeriod |-> HealthCheckStartPeriod]

\* taskDefinition.findContainer(name)
findContainer(cs, name) == {c \in cs : c.name = name}

\* addAppContainer without its two guards: the SUCCESS dependency on init is
\* added whether or not Application Signals is enabled and init was found.
addAppContainer_AlwaysInitEdge ==
    /\ pc = "addAppContainer"
    /\ containers' = containers \cup {AppContainer(props)}
    /\ appEnvironment' = buildAppEnvironment(props)
    /\ appSecrets' = buildAppSecrets(props)
    /\ healthChecks' = healthChecks \cup {AppHealthCheck}
    /\ mountPoints' =
         IF props.enableApplicationSignals
         THEN mountPoints \cup
                {[container |-> "app",
                  sourceVolume |-> "opentelemetry-auto-instrumentation",
                  containerPath |-> "/otel-auto-instrumentation",
                  readOnly |-> TRUE]}
         ELSE mountPoints
    /\ dependsOn' = dependsOn \cup
         {[container |-> "app", on |-> "init", condition |-> "SUCCESS"]}
    /\ pc' = "setupContainerDependencies"
    /\ UNCHANGED appVars
    /\ UNCHANGED <<props, targetGroups, listeners, rules, volumes, taskRoleGrants,
                   service, ingress, loadBalancers>>

\* addAppContainer: the app container with its environment, secrets and
\* health check; with Application Signals the read-only mount and, when the
\* init container is found, the SUCCESS dependency on it.
addAppContainer ==
    /\ pc = "addAppContainer"
    /\ containers' = containers \cup {AppContainer(props)}
    /\ appEnvironment' = buildAppEnvironment(props)
    /\ appSecrets' = buildAppSecrets(props)
    /\ healthChecks' = healthChecks \cup {AppHealthCheck}
    /\ IF props.enableApplicationSignals
       THEN /\ mountPoints' = mountPoints \cup
                 {[container |-> "app",
                   sourceVolume |-> "opentelemetry-auto-instrumentation",
                   containerPath |-> "/otel-auto-instrumentation",
                   readOnly |-> TRUE]}
            /\ dependsOn' =
                 IF findContainer(containers, "init") # {}
                 THEN dependsOn \cup
                        {[container |-> "app", on |-> "init", condition |-> "SUCCESS"]}
                 ELSE dependsOn
       ELSE UNCHANGED <<mountPoints, dependsOn>>
    /\ pc' = "setupContainerDependencies"
    /\ UNCHANGED appVars
    /\ UNCHANGED <<props, targetGroups, listeners, rules, volumes, taskRoleGrants,
                   service, ingress, loadBalancers>>

\* setupContainerDependencies as it would be with a second dependency added
\* the other way round: web waits for app, and app waits for web to START.
setupContainerDependencies_BothWays ==
    /\ pc = "setupContainerDependencies"
    /\ dependsOn' = dependsOn \cup
         {[container |-> "web", on |-> "app", condition |-> "HEALTHY"],
          [container |-> "app", on |-> "web", condition |-> "START"]}
    /\ pc' = "setupFireLens"
    /\ UNCHANGED appVars
    /\ UNCHANGED <<props, targetGroups, listeners, rules, volumes, containers,
                   mountPoints, healthChecks, appEnvironment, appSecrets,
                   taskRoleGrants, service, ingress, loadBalancers>>

\* setupContainerDependencies: web waits for app to be HEALTHY.
setupContainerDependencies ==
    /\ pc = "setupContainerDependencies"
    /\ dependsOn' = dependsOn \cup
         {[container |-> "web", on |-> "app", condition |-> "HEALTHY"]}
    /\ pc' = "setupFireLens"
    /\ UNCHANGED appVars
    /\ UNCHANGED <<props, targetGroups, listeners, rules, volumes, containers,
                   mountPoints, healthChecks, appEnvironment, appSecrets,
                   taskRoleGrants, service, ingress, loadBalancers>>

\* grantAdotPermissions: CloudWatch Logs and ecs:DescribeTasks for the
\* collector, and the X-Ray managed policy with Application Signals.
grantAdotPermissions(p) ==
    {"taskRole:logs:prometheus", "taskRole:ecs:DescribeTasks"}
    \cup (IF p.enableApplicationSignals
          THEN {"taskRole:AWSXrayWriteOnlyAccess"}
          ELSE {})

OtelConfigPath(p) ==
    IF p.enableApplicationSignals THEN "otel-app-signals.yaml" ELSE "otel-config.yaml"

AdotCollector ==
    [name |-> "adot-collector", essential |-> FALSE, logDriver |-> "awslogs"]

LogRouter ==
    [name |-> "logRouter", essential |-> TRUE, logDriver |-> "awslogs"]

\* setupFireLens with the collector condition reduced to
\* enableApplicationSignals: Fluent Bit metrics alone add no collector.
setupFireLens_CollectorOnlyForTracing ==
    /\ pc = "setupFireLens"
    /\ IF ~props.firelens
       THEN UNCHANGED <<containers, dependsOn, taskRoleGrants>>
       ELSE IF props.enableApplicationSignals
            THEN /\ containers' = containers \cup {LogRouter, AdotCollector}
                 /\ dependsOn' = dependsOn \cup
                      {[container |-> "adot-collector", on |-> "logRouter",
                        condition |-> "START"]}
                 /\ taskRoleGrants' = taskRoleGrants
                      \cup {"taskRole:confBucket:read",
                            "taskRole:deliveryStream:putRecords",
                            "taskRole:logGroup:write"}
                      \cup grantAdotPermissions(props)
                      \cup {"executionRole:ssm:" \o OtelConfigPath(props)}
            ELSE /\ containers' = containers \cup {LogRouter}
                 /\ taskRoleGrants' = taskRoleGrants
                      \cup {"taskRole:confBucket:read",
                            "taskRole:deliveryStream:putRecords",
                            "taskRole:logGroup:write"}
                 /\ UNCHANGED dependsOn
    /\ pc' = "grantPut"
    /\ UNCHANGED appVars
    /\ UNCHANGED <<props, targetGroups, listeners, rules, volumes, mountPoints,
                   healthChecks, appEnvironment, appSecrets, service, ingress,
                   loadBalancers>>

\* setupFireLens: returns at once without props.firelens; else adds the log
\* router and its grants and, with Fluent Bit metrics or Application
\* Signals, calls setupAdotCollector: the collector container, its START
\* dependency on the log router and its permissions.
setupFireLens ==
    /\ pc = "setupFireLens"
    /\ IF ~props.firelens
       THEN UNCHANGED <<containers, dependsOn, taskRoleGrants>>
       ELSE IF props.enableFluentBitMetrics \/ props.enableApplicationSignals
            THEN /\ containers' = containers \cup {LogRouter, AdotCollector}
                 /\ dependsOn' = dependsOn \cup
                      {[container |-> "adot-collector", on |-> "logRouter",
                        condition |-> "START"]}
                 /\ taskRoleGrants' = taskRoleGrants
                      \cup {"taskRole:confBucket:read",
                            "taskRole:deliveryStream:putRecords",
                            "taskRole:logGroup:write"}
                      \cup grantAdotPermissions(props)
                      \cup {"executionRole:ssm:" \o OtelConfigPath(props)}
            ELSE /\ containers' = containers \cup {LogRouter}
                 /\ taskRoleGrants' = taskRoleGrants
                      \cup {"taskRole:confBucket:read",
                            "taskRole:deliveryStream:putRecords",
                            "taskRole:logGroup:write"}
                 /\ UNCHANGED dependsOn
    /\ pc' = "grantPut"
    /\ UNCHANGED appVars
    /\ UNCHANGED <<props, targetGroups, listeners, rules, volumes, mountPoints,
                   healthChecks, appEnvironment, appSecrets, service, ingress,
                   loadBalancers>>

\* ecsExecLogBucketConstruct.bucket.grantPut(this.taskDefinition.taskRole)
grantPut ==
    /\ pc = "grantPut"
    /\ taskRoleGrants' = taskRoleGrants \cup {"taskRole:execLogBucket:put"}
    /\ pc' = "createService"
    /\ UNCHANGED appVars
    /\ UNCHANGED <<props, targetGroups, listeners, rules, volumes, containers,
                   dependsOn, mountPoints, healthChecks, appEnvironment, appSecrets,
                   service, ingress, loadBalancers>>

FargateService ==
    [desiredCount |-> DesiredCount,
     minHealthyPercent |-> MinHealthyPercent,
     maxHealthyPercent |-> MaxHealthyPercent,
     deploymentStrategy |-> "BLUE_GREEN",
     bakeTime |-> BakeTimeSeconds,
     circuitBreakerRollback |-> TRUE,
     healthCheckGracePeriod |-> HealthCheckGracePeriod,
     enableExecuteCommand |-> TRUE]

createService ==
    /\ pc = "createService"
    /\ service' = {FargateService}
    /\ pc' = "setupConnections"
    /\ UNCHANGED appVars
    /\ UNCHANGED <<props, targetGroups, listeners, rules, volumes, containers,
                   dependsOn, mountPoints, healthChecks, appEnvironment, appSecrets,
                   taskRoleGrants, ingress, loadBalancers>>

\* setupConnections: the ALB may reach the service on 80; the service may
\* reach Aurora and Valkey when they are given.
setupConnections ==
    /\ pc = "setupConnections"
    /\ ingress' = ingress
         \cup {[to |-> "service", from |-> "alb", port |-> "80"]}
         \cup (IF props.aurora
               THEN {[to |-> "aurora", from |-> "service", port |-> "5432"]}
               ELSE {})
         \cup (IF props.valkey
               THEN {[to |-> "valkey", from |-> "service", port |-> "valkey.port"]}
               ELSE {})
    /\ pc' = "setupLoadBalancerTarget"
    /\ UNCHANGED appVars
    /\ UNCHANGED <<props, targetGroups, listeners, rules, volumes, containers,
                   dependsOn, mountPoints, healthChecks, appEnvironment, appSecrets,
                   taskRoleGrants, service, loadBalancers>>

\* service.loadBalancerTarget({... alternateTarget ...}) attached to tg1:
\* the web container's port 80 registers in tg1, tg2 is the alternate
\* target group, and the two listener rules are handed over by reference.
LoadBalancerTarget ==
    [targetGroup |-> "Tg1",
     containerName |-> "web",
     containerPort |-> ProductionPort,
     alternateTargetGroup |-> "Tg2",
     productionListenerRule |-> "ListenerRule",
     testListenerRule |-> "TestListenerRule"]

setupLoadBalancerTarget ==
    /\ pc = "setupLoadBalancerTarget"
    /\ loadBalancers' = loadBalancers \cup {LoadBalancerTarget}
    /\ pc' = "done"
    /\ UNCHANGED appVars
    /\ UNCHANGED <<props, targetGroups, listeners, rules, volumes, containers,
                   dependsOn, mountPoints, healthChecks, appEnvironment, appSecrets,
                   taskRoleGrants, service, ingress>>

\* The health object before the handler has filled it in, and no response.
NoHealth == [status |-> "", db |-> "", cache |-> "", error |-> ""]
NoResponse == [code |-> 0, body |-> NoHealth]

\* The app container's process has not been started.
AppNotStarted ==
    /\ env = [dbHost |-> FALSE, valkeyHost |-> FALSE]
    /\ maxRetries = 0
    /\ apc = "notStarted"
    /\ attempt = 0
    /\ attempts = 0
    /\ sleeps = 0
    /\ outcome = "none"
    /\ initResult = "running"
    /\ tables = {}
    /\ hpc = "idle"
    /\ health = NoHealth
    /\ response = NoResponse

Init ==
    /\ AppNotStarted
    /\ props \in PropsSpace
    /\ pc = "AlbConstruct"
    /\ targetGroups = {}
    /\ listeners = {}
    /\ rules = {}
    /\ volumes = {}
    /\ containers = {}
    /\ dependsOn = {}
    /\ mountPoints = {}
    /\ healthChecks = {}
    /\ appEnvironment = {}
    /\ appSecrets = {}
    /\ taskRoleGrants = {}
    /\ service = {}
    /\ ingress = {}
    /\ loadBalancers = {}

Next ==
    \/ AlbConstruct
    \/ createCluster
    \/ createTaskDefinition
    \/ addAdotAutoInstrumentationInitContainer
    \/ addWebContainer
    \/ addAppContainer
    \/ setupContainerDependencies
    \/ setupFireLens
    \/ grantPut
    \/ createService
    \/ setupConnections
    \/ setupLoadBalancerTarget

Spec == Init /\ [][Next]_vars

\* ---------------------------------------------------------------------
\* Traffic bindings as the constructed stack declares them
\* ---------------------------------------------------------------------
\* The target groups the rule `id` forwards to.
RuleTargets(id) ==
    UNION {{r.forward[i] : i \in DOMAIN r.forward} : r \in {x \in rules : x.id = id}}

\* The rule the service names as its production / test listener rule.
ProductionBinding == RuleTargets("ListenerRule")
TestBinding == RuleTargets("TestListenerRule")

\* The stack is constructed and no deployment has been started on it.
Constructed == pc = "done"

\* ---------------------------------------------------------------------
\* C9
\* ---------------------------------------------------------------------
\* C9 (as stated): with no deployment attempt in flight, the initial state
\* included, the test binding is unbound. The constructed stack has no
\* attempt in flight, so the claim requires the test rule to forward to no
\* target group there.
C9_TestUnboundWhenIdle ==
    Constructed => TestBinding = {}

\* C9 (amended): in the constructed stack, with no attempt in flight, the
\* test binding is bound, not unbound: the test listener on port 10080 has
\* its rule forwarding to exactly Tg2, which is the service's alternate
\* target group, is not a target group the production rule forwards to, and
\* is not the target group the service registers its tasks in.
C9_TestBoundToAlternateWhenIdle ==
    Constructed =>
        /\ TestBinding = {"Tg2"}
        /\ TestBinding \cap ProductionBinding = {}
        /\ \E l \in listeners, r \in rules :
              /\ l.id = "TestListener" /\ l.port = TestPort
              /\ r.id = "TestListenerRule" /\ r.listener = l.id
        /\ \A lb \in loadBalancers :
              /\ lb.testListenerRule = "TestListenerRule"
              /\ lb.alternateTargetGroup \in TestBinding
              /\ lb.targetGroup \notin TestBinding

\* C9 witness: the constructed stack, the service attached to the load
\* balancer, the test rule forwarding to Tg2.
C9_Witness ==
    /\ Constructed
    /\ loadBalancers # {}
    /\ TestBinding = {"Tg2"}

\* ---------------------------------------------------------------------
\* The container dependency graph of the task definition
\* ---------------------------------------------------------------------
\* The containers that `n` waits for directly.
DependenciesOf(n) == {d.on : d \in {e \in dependsOn : e.container = n}}

\* The names the graph mentions: containers and both ends of every edge.
GraphNodes ==
    {c.name : c \in containers}
    \cup {d.container : d \in dependsOn} \cup {d.on : d \in dependsOn}

\* The containers reachable from `n` along at most `k` dependency edges.
RECURSIVE DependenciesWithin(_, _)
DependenciesWithin(n, k) ==
    IF k = 0
    THEN {}
    ELSE DependenciesOf(n)
         \cup UNION {DependenciesWithin(m, k - 1) : m \in DependenciesOf(n)}

\* No container waits, directly or through others, for itself.
Acyclic ==
    \A n \in GraphNodes : n \notin DependenciesWithin(n, Cardinality(GraphNodes))

\* The edges the constructor steps add, and the only ones: the source takes
\* no edge from its caller.
CodeEdges ==
    {[container |-> "app", on |-> "init", condition |-> "SUCCESS"],
     [container |-> "web", on |-> "app", condition |-> "HEALTHY"],
     [container |-> "adot-collector", on |-> "logRouter", condition |-> "START"]}

HasContainer(name) == findContainer(containers, name) # {}

\* The keys buildAppEnvironment sets for the OTLP exporter: endpoint,
\* protocol, exporter, sampler and its argument, propagation formats.
ExporterKeys ==
    {"OTEL_EXPORTER_OTLP_ENDPOINT", "OTEL_EXPORTER_OTLP_PROTOCOL",
     "OTEL_TRACES_EXPORTER", "OTEL_TRACES_SAMPLER", "OTEL_TRACES_SAMPLER_ARG",
     "OTEL_PROPAGATORS"}

\* Every key buildAppEnvironment sets under enableApplicationSignals.
OtelKeys == {e[1] : e \in OtelEnvironment(props)}

EnvironmentKeys == {e[1] : e \in appEnvironment}

\* The app container carries every exporter key with a non-empty value.
HasExporterEnvironment ==
    /\ ExporterKeys \subseteq EnvironmentKeys
    /\ \A e \in appEnvironment : e[1] \in ExporterKeys => e[2] # ""

InitEdge == [container |-> "app", on |-> "init", condition |-> "SUCCESS"]
CollectorEdge == [container |-> "adot-collector", on |-> "logRouter", condition |-> "START"]

\* ---------------------------------------------------------------------
\* C21
\* ---------------------------------------------------------------------
\* C21: in the constructed task definition the init container, the SUCCESS
\* edge from app to init and the non-empty tracing exporter entries of the
\* app container are all present when tracing (enableApplicationSignals) is
\* enabled, and with tracing disabled there is no init container, no edge
\* to init and no OTEL entry at all.
C21_InitAndExporterIffTracing ==
    Constructed =>
        IF props.enableApplicationSignals
        THEN /\ HasContainer("init")
             /\ InitEdge \in dependsOn
             /\ HasExporterEnvironment
        ELSE /\ ~HasContainer("init")
             /\ \A d \in dependsOn : d.on # "init" /\ d.container # "init"
             /\ EnvironmentKeys \cap OtelKeys = {}

\* C21 witness: a constructed stack with tracing enabled, init present,
\* the SUCCESS edge in the graph and the exporter endpoint set.
C21_Witness ==
    /\ Constructed
    /\ props.enableApplicationSignals
    /\ HasContainer("init")
    /\ InitEdge \in dependsOn
    /\ <<"OTEL_EXPORTER_OTLP_ENDPOINT", "http://localhost:4318">> \in appEnvironment

C27_EdgesNameExistingContainers ==
    /\ \A d \in dependsOn : HasContainer(d.container) /\ HasContainer(d.on)
    /\ HasContainer("adot-collector") => HasContainer("logRouter")
    /\ InitEdge \in dependsOn => HasContainer("init")

\* C27 witness: the constructed task definition with init, log router and
\* collector, and all three edges between existing containers.
C27_Witness ==
    /\ Constructed
    /\ HasContainer("init") /\ HasContainer("logRouter")
    /\ HasContainer("adot-collector")
    /\ Cardinality(dependsOn) = 3
    /\ Cardinality(containers) = 5

\* ---------------------------------------------------------------------
\* The app container's process: startServer, initializeDatabase, /health
\* ---------------------------------------------------------------------
\* The largest maxRetries argument explored.
MaxRetriesBound == 3

\* pool and valkey are created at module load only when the host is set.
PoolConfigured == env.dbHost
ValkeyConfigured == env.valkeyHost

\* The four statements of createTables, in order.
CreateStatements == <<"visits", "counter", "idx_visits_session_id", "idx_visits_created_at">>

\* What the first `n` statements of createTables create.
CreatedBy(n) == {CreateStatements[i] : i \in 1..n}

\* No construction is in progress while the process runs.
StackNotConstructed ==
    /\ props = [firelens |-> FALSE, enableFluentBitMetrics |-> FALSE,
                enableApplicationSignals |-> FALSE, aurora |-> FALSE,
                valkey |-> FALSE]
    /\ pc = "notConstructing"
    /\ targetGroups = {} /\ listeners = {} /\ rules = {} /\ volumes = {}
    /\ containers = {} /\ dependsOn = {} /\ mountPoints = {}
    /\ healthChecks = {} /\ appEnvironment = {} /\ appSecrets = {}
    /\ taskRoleGrants = {} /\ service = {} /\ ingress = {} /\ loadBalancers = {}

\* startServer calls initializeDatabase(): with no pool it returns at once,
\* else it enters the loop over the attempts 1..maxRetries.
initializeDatabase ==
    /\ apc = "startServer"
    /\ IF ~PoolConfigured
       THEN /\ initResult' = "returned"
            /\ apc' = "listen"
       ELSE /\ apc' = "loop"
            /\ UNCHANGED initResult
    /\ UNCHANGED <<env, maxRetries, attempt, attempts, sleeps, outcome,
                   tables, hpc, health, response>>
    /\ UNCHANGED stackVars

\* The head of the for loop: the next attempt, or the end of the array.
nextAttempt ==
    /\ apc = "loop"
    /\ IF attempt < maxRetries
       THEN /\ attempt' = attempt + 1
            /\ apc' = "createTables"
       ELSE /\ apc' = "exhausted"
            /\ UNCHANGED attempt
    /\ UNCHANGED <<env, maxRetries, attempts, sleeps, outcome, initResult,
                   tables, hpc, health, response>>
    /\ UNCHANGED stackVars

\* createTables with a catch block that sleeps after every failed attempt,
\* the last one included.
createTables_AlwaysSleeps ==
    /\ apc = "createTables"
    /\ \E failAt \in 0..Len(CreateStatements) :
          /\ attempts' = attempts + 1
          /\ IF failAt = 0
             THEN /\ tables' = tables \cup CreatedBy(Len(CreateStatements))
                  /\ outcome' = "ok"
                  /\ initResult' = "returned"
                  /\ apc' = "listen"
             ELSE /\ tables' = tables \cup CreatedBy(failAt - 1)
                  /\ outcome' = "failed"
                  /\ UNCHANGED initResult
                  /\ apc' = "sleep"
    /\ UNCHANGED <<env, maxRetries, attempt, sleeps, hpc, health, response>>
    /\ UNCHANGED stackVars

\* try { await createTables(); return } catch { if (attempt < maxRetries)
\* sleep }: the statements before the failing one take effect; failAt = 0
\* is the call in which no statement fails.
createTables ==
    /\ apc = "createTables"
    /\ \E failAt \in 0..Len(CreateStatements) :
          /\ attempts' = attempts + 1
          /\ IF failAt = 0
             THEN /\ tables' = tables \cup CreatedBy(Len(CreateStatements))
                  /\ outcome' = "ok"
                  /\ initResult' = "returned"
                  /\ apc' = "listen"
             ELSE /\ tables' = tables \cup CreatedBy(failAt - 1)
                  /\ outcome' = "failed"
                  /\ UNCHANGED initResult
                  /\ apc' = IF attempt < maxRetries THEN "sleep" ELSE "loop"
    /\ UNCHANGED <<env, maxRetries, attempt, sleeps, hpc, health, response>>
    /\ UNCHANGED stackVars

\* await sleep(retryIntervalMs)
sleep ==
    /\ apc = "sleep"
    /\ sleeps' = sleeps + 1
    /\ apc' = "loop"
    /\ UNCHANGED <<env, maxRetries, attempt, attempts, outcome, initResult,
                   tables, hpc, health, response>>
    /\ UNCHANGED stackVars

\* After the loop: the error is logged and the function returns.
retriesExhausted ==
    /\ apc = "exhausted"
    /\ initResult' = "returned"
    /\ apc' = "listen"
    /\ UNCHANGED <<env, maxRetries, attempt, attempts, sleeps, outcome,
                   tables, hpc, health, response>>
    /\ UNCHANGED stackVars

\* app.listen(port): requests are served from here on.
listen ==
    /\ apc = "listen"
    /\ apc' = "serving"
    /\ UNCHANGED <<env, maxRetries, attempt, attempts, sleeps, outcome,
                   initResult, tables, hpc, health, response>>
    /\ UNCHANGED stackVars

AppInit ==
    /\ StackNotConstructed
    /\ env \in [dbHost : BOOLEAN, valkeyHost : BOOLEAN]
    /\ maxRetries \in 0..MaxRetriesBound
    /\ apc = "startServer"
    /\ attempt = 0
    /\ attempts = 0
    /\ sleeps = 0
    /\ outcome = "none"
    /\ initResult = "running"
    /\ tables = {}
    /\ hpc = "idle"
    /\ health = NoHealth
    /\ response = NoResponse

\* The variables initializeDatabase and startServer write.
startVars == <<env, maxRetries, apc, attempt, attempts, sleeps, outcome,
               initResult, tables>>

\* What the thrown value can be: an Error of the database client, an Error
\* of the cache client, or a value that is not an Error.
ThrownValues == {"db error", "cache error", "not an Error"}

\* error instanceof Error ? error.message : "Unknown error"
ErrorMessage(error) == IF error = "not an Error" THEN "Unknown error" ELSE error

\* The catch block of the handler: the response it sends for the health
\* object `h` and the caught `error`.
catchError_Answers200(h, error) ==
    [code |-> 200,
     body |-> [h EXCEPT !.status = "unhealthy", !.error = ErrorMessage(error)]]

catchError(h, error) ==
    [code |-> 503,
     body |-> [h EXCEPT !.status = "unhealthy", !.error = ErrorMessage(error)]]

\* GET /health arrives at the listening server: health = {status: "healthy"}.
healthRequest ==
    /\ apc = "serving"
    /\ hpc \in {"idle", "responded"}
    /\ health' = [NoHealth EXCEPT !.status = "healthy"]
    /\ response' = NoResponse
    /\ hpc' = "db"
    /\ UNCHANGED startVars
    /\ UNCHANGED stackVars

\* if (pool) { await pool.query("SELECT 1"); db = "connected" }
\* else { db = "not configured" }; a rejected query runs the catch block.
healthDbCheck ==
    /\ hpc = "db"
    /\ IF PoolConfigured
       THEN \/ /\ health' = [health EXCEPT !.db = "connected"]
               /\ hpc' = "cache"
               /\ UNCHANGED response
            \/ \E error \in {"db error", "not an Error"} :
                  /\ response' = catchError(health, error)
                  /\ health' = response'.body
                  /\ hpc' = "responded"
       ELSE /\ health' = [health EXCEPT !.db = "not configured"]
            /\ hpc' = "cache"
            /\ UNCHANGED response
    /\ UNCHANGED startVars
    /\ UNCHANGED stackVars

\* if (valkey) { await valkey.ping(); cache = "connected" }
\* else { cache = "not configured" }; a rejected ping runs the catch block.
healthCacheCheck ==
    /\ hpc = "cache"
    /\ IF ValkeyConfigured
       THEN \/ /\ health' = [health EXCEPT !.cache = "connected"]
               /\ hpc' = "respond"
               /\ UNCHANGED response
            \/ \E error \in {"cache error", "not an Error"} :
                  /\ response' = catchError(health, error)
                  /\ health' = response'.body
                  /\ hpc' = "responded"
       ELSE /\ health' = [health EXCEPT !.cache = "not configured"]
            /\ hpc' = "respond"
            /\ UNCHANGED response
    /\ UNCHANGED startVars
    /\ UNCHANGED stackVars

\* res.json(health): status 200.
healthRespond ==
    /\ hpc = "respond"
    /\ response' = [code |-> 200, body |-> health]
    /\ hpc' = "responded"
    /\ UNCHANGED health
    /\ UNCHANGED startVars
    /\ UNCHANGED stackVars

AppNext ==
    \/ initializeDatabase
    \/ nextAttempt
    \/ createTables
    \/ sleep
    \/ retriesExhausted
    \/ listen
    \/ healthRequest
    \/ healthDbCheck
    \/ healthCacheCheck
    \/ healthRespond

AppSpec == AppInit /\ [][AppNext]_vars

\* Every awaited promise settles and the event loop runs the continuation.
FairAppSpec == AppSpec /\ WF_vars(AppNext)

\* ---------------------------------------------------------------------
\* C25: the /health endpoint
\* ---------------------------------------------------------------------
Responded == hpc = "responded"

\* The check of the dependency ran to its end: it was reached and did not throw.
DbCheckPassed == response.body.db \in {"connected", "not configured"}
CacheCheckPassed == response.body.cache \in {"connected", "not configured"}

\* C25: /health answers 200 only if every configured dependency responded
\* (database query, cache ping); it answers 503 with status "unhealthy" when
\* a configured dependency's check throws; a dependency that is not
\* configured is reported "not configured" and never makes it unhealthy.
C25_HealthReflectsConfiguredDependencies ==
    Responded =>
        /\ response.code \in {200, 503}
        /\ response.code = 200 =>
              /\ response.body.status = "healthy"
              /\ response.body.error = ""
              /\ response.body.db =
                    (IF PoolConfigured THEN "connected" ELSE "not configured")
              /\ response.body.cache =
                    (IF ValkeyConfigured THEN "connected" ELSE "not configured")
        /\ ~(DbCheckPassed /\ CacheCheckPassed) =>
              /\ response.code = 503
              /\ response.body.status = "unhealthy"
              /\ response.body.error # ""
        /\ response.code = 503 =>
              \/ PoolConfigured /\ ~DbCheckPassed
              \/ ValkeyConfigured /\ DbCheckPassed /\ ~CacheCheckPassed
        /\ (~PoolConfigured /\ ~ValkeyConfigured) => response.code = 200

\* The cache ping threw after the database answered, with both configured.
C25_Witness ==
    /\ Responded
    /\ PoolConfigured /\ ValkeyConfigured
    /\ response.code = 503
    /\ response.body.status = "unhealthy"
    /\ response.body.db = "connected"
    /\ response.body.cache = ""

\* ---------------------------------------------------------------------
\* C30: initializeDatabase
\* ---------------------------------------------------------------------
Returned == initResult = "returned"

SleepsBetween(n) == IF n = 0 THEN 0 ELSE n - 1

C30_Safe ==
    /\ attempts <= maxRetries
    /\ initResult \in {"running", "returned"}
    /\ ~PoolConfigured => attempts = 0 /\ sleeps = 0 /\ tables = {}
    /\ outcome = "ok" => Returned /\ apc \in {"listen", "serving"}
    /\ (Returned /\ PoolConfigured /\ outcome # "ok") => attempts = maxRetries
    /\ Returned => sleeps = SleepsBetween(attempts)
    /\ apc \in {"listen", "serving"} => Returned

\* C30: initializeDatabase always terminates and returns normally: at most
\* maxRetries calls of createTables, none after the first that succeeds,
\* one sleep between two attempts and none after the last, a normal return
\* after maxRetries failures, and no attempt when no pool is configured.
C30_InitializeDatabaseReturns == []C30_Safe /\ <>Returned

\* Every attempt failed: maxRetries attempts, one sleep fewer, normal return.
C30_Witness ==
    /\ Returned
    /\ PoolConfigured
    /\ outcome = "failed"
    /\ maxRetries >= 2
    /\ attempts = maxRetries
    /\ sleeps = maxRetries - 1

====
